---- MODULE Spec2Model ----
(***************************************************************************)
(* Competence Sentiment Analyzer (src/WebApp3.py): the script run of a     *)
(* Streamlit session, the memoized model loader, the Analyze handler and   *)
(* the history file sentiment_history.csv.                                 *)
(*                                                                         *)
(* Text is a sequence of characters.  A character is a one-character       *)
(* string; the fixed words the program writes (column names, labels, the   *)
(* strftime output) are kept as indivisible characters, since none of     *)
(* them holds a comma, a quote or a line break.                            *)
(***************************************************************************)
EXTENDS Integers, Sequences, FiniteSets, TLC

\* ------------------------------------------------------------------ bounds
\* Most data rows the history file is let to hold.
MaxRecords == 2

\* ------------------------------------------------------- characters, texts
COMMA == ","
QUOTE == "\""
NL    == "\n"
SPACE == " "

\* str.strip() removes these from both ends.
Whitespace == {SPACE, NL}

\* What the user may have typed in the text area.
BlankTexts == {<<>>, <<NL, SPACE>>}
Texts == BlankTexts \cup
         { <<"N", "A">>, <<"a", COMMA, QUOTE, NL>> }

\* Class codes model.predict may return.
Codes == {0, 1, 2, 3}

\* datetime.now(), already formatted by strftime.
Clock == { [date |-> <<"2024-01-05">>, time |-> <<"09:00:00">>] }

HISTORY_COLUMNS == << <<"Date">>, <<"Time">>, <<"Response">>, <<"Classification">> >>

\* -------------------------------------------------------------- DataFrame.to_csv
\* csv.writer with QUOTE_MINIMAL: a field holding the delimiter, the quote
\* character or the line terminator is wrapped in quotes, its quotes doubled.
NeedsQuote(field) == \E i \in 1..Len(field) : field[i] \in {COMMA, QUOTE, NL}

RECURSIVE DoubleQuotes(_)
DoubleQuotes(field) ==
    IF field = <<>> THEN <<>>
    ELSE (IF Head(field) = QUOTE THEN <<QUOTE, QUOTE>> ELSE <<Head(field)>>)
         \o DoubleQuotes(Tail(field))

CsvField(field) ==
    IF NeedsQuote(field) THEN <<QUOTE>> \o DoubleQuotes(field) \o <<QUOTE>>
    ELSE field

RECURSIVE CsvJoin(_)
CsvJoin(fields) ==
    IF Len(fields) = 1 THEN CsvField(fields[1])
    ELSE CsvField(Head(fields)) \o <<COMMA>> \o CsvJoin(Tail(fields))

\* One written line: the fields, comma separated, and the line terminator.
CsvRow(fields) == CsvJoin(fields) \o <<NL>>

\* ------------------------------------------------------------ pandas.read_csv
\* The tokenizer: st is "start" (at the start of a field), "field" (inside an
\* unquoted field), "quoted" (inside a quoted field) or "endquote" (just after
\* a quote met inside a quoted field).  Blank lines are skipped.
RECURSIVE Tokenize(_, _, _, _, _, _)
Tokenize(s, i, st, fld, row, rows) ==
    IF i > Len(s)
    THEN IF st = "start" /\ fld = <<>> /\ row = <<>> THEN rows
         ELSE Append(rows, Append(row, fld))
    ELSE LET c == s[i] IN
         IF st = "quoted"
         THEN IF c = QUOTE THEN Tokenize(s, i + 1, "endquote", fld, row, rows)
              ELSE Tokenize(s, i + 1, "quoted", Append(fld, c), row, rows)
         ELSE IF st = "endquote" /\ c = QUOTE
         THEN Tokenize(s, i + 1, "quoted", Append(fld, c), row, rows)
         ELSE IF st = "start" /\ c = QUOTE
         THEN Tokenize(s, i + 1, "quoted", fld, row, rows)
         ELSE IF c = COMMA
         THEN Tokenize(s, i + 1, "start", <<>>, Append(row, fld), rows)
         ELSE IF c = NL
         THEN IF st = "start" /\ fld = <<>> /\ row = <<>>
              THEN Tokenize(s, i + 1, "start", <<>>, <<>>, rows)
              ELSE Tokenize(s, i + 1, "start", <<>>, <<>>, Append(rows, Append(row, fld)))
         ELSE Tokenize(s, i + 1, "field", Append(fld, c), row, rows)

\* The lines of a file as rows of text fields, quoting undone.
CsvRows(s) == Tokenize(s, 1, "start", <<>>, <<>>, <<>>)

\* The default na_values that the characters above can spell.
NA_VALUES == { <<>>, <<"N", "A">> }

NaN == [k |-> "nan"]
Str(t) == [k |-> "str", v |-> t]

\* Field j of a row; a short row is padded with missing fields.
Cell(r, j) == IF j <= Len(r) THEN r[j] ELSE <<>>

\* A field that spells a missing value is read as NaN, quoted or not.  No
\* text of the model spells a number, so every column keeps its text.
Convert(f) == IF f \in NA_VALUES THEN NaN ELSE Str(f)

\* The DataFrame read from the text of a file: the first row names the
\* columns, each later row is one record.
read_csv(s) ==
    LET rows == CsvRows(s)
        data == Tail(rows)
        cols == Head(rows)
    IN [ columns |-> cols,
         records |-> [ n \in 1..Len(data) |->
                        [ j \in 1..Len(cols) |-> Convert(Cell(data[n], j)) ] ] ]

\* ------------------------------------------------------------------- state
\* Browser sessions served by the one process; each runs the script on its
\* own thread.
Sessions == {"s1", "s2"}
\* The one active session of the single-user deployment.
SingleSession == {"s1"}

Pages == {"Home", "Summary", "History"}

None == "None"
\* What the module-level names model, vectorizer hold before line 111 ran.
Unbound == [model |-> "unbound", vectorizer |-> "unbound"]

\* st.session_state has no "result" key.
NoResult == <<>>
EmptyInputMsg == <<"Please enter some text first.">>
NotLoadedMsg  == <<"Model is not loaded. Cannot perform analysis.">>

VARIABLES
    fileExists,   \* os.path.exists(HISTORY_FILE)
    file,         \* the text of HISTORY_FILE
    artifact,     \* the two local artifact files: "missing", "good", "corrupt"
    cache,        \* st.cache_resource store of load_model_and_vectorizer: <<>> or <<pair>>
    lock,         \* holder of the store's compute lock, or "free"
    pc,           \* per session: where its script run stands
    page,         \* per session: st.session_state.page
    result,       \* per session: st.session_state.result
    loaded,       \* per session: the run's (model, vectorizer)
    bodyRuns,     \* times the body of load_model_and_vectorizer has run
    downloads,    \* gdown.download calls made
    joblibLoads,  \* joblib.load calls made
    last,         \* the step just taken, with its inputs and what it observed
    appended,     \* records written by to_csv since the file last did not exist
    headerByInit, \* the file now on disk was created by the start-up block
    cleared       \* Delete History has removed the file at least once

vars == << fileExists, file, artifact, cache, lock, pc, page, result, loaded,
           bodyRuns, downloads, joblibLoads, last, appended, headerByInit, cleared >>

storeVars  == << fileExists, file, appended, headerByInit, cleared >>
loaderVars == << artifact, cache, lock, bodyRuns, downloads, joblibLoads >>

Step(act, s) ==
    [ act |-> act, sess |-> s, outcome |-> "-", text |-> <<>>, code |-> 0,
      called |-> {}, view |-> <<>> ]

Init ==
    /\ fileExists = FALSE
    /\ file = <<>>
    /\ artifact \in [ {"vectorizer", "model"} -> {"missing", "good", "corrupt"} ]
    /\ cache = <<>>
    /\ lock = "free"
    /\ pc = [ s \in Sessions |-> "init" ]
    /\ page = [ s \in Sessions |-> "Home" ]
    /\ result = [ s \in Sessions |-> NoResult ]
    /\ loaded = [ s \in Sessions |-> Unbound ]
    /\ bodyRuns = 0
    /\ downloads = 0
    /\ joblibLoads = 0
    /\ last = Step("start", "s1")
    /\ appended = <<>>
    /\ headerByInit = FALSE
    /\ cleared = FALSE

\* ------------------------------------------------ start-up block, lines 100-106
\* A script run starts here.  The write may raise; the exception is dropped.
\* A mutation of HistoryMissing: the file is written anew on every run.
HistoryMissingAlways == TRUE

\* not os.path.exists(HISTORY_FILE)
HistoryMissing == ~fileExists

InitHistory(s) ==
    /\ pc[s] = "init"
    /\ IF HistoryMissing
       THEN \/ /\ fileExists' = TRUE
               /\ file' = CsvRow(HISTORY_COLUMNS)
               /\ headerByInit' = TRUE
            \/ UNCHANGED << fileExists, file, headerByInit >>
       ELSE UNCHANGED << fileExists, file, headerByInit >>
    /\ pc' = [pc EXCEPT ![s] = "load"]
    /\ loaded' = [loaded EXCEPT ![s] = Unbound]
    /\ last' = Step("init", s)
    /\ UNCHANGED << loaderVars, page, result, appended, cleared >>

\* --------------------------------------------- download_if_missing, lines 50-68
\* The outcomes of one call on an artifact file in state st: whether it
\* returns True, the file it leaves, and the gdown.download calls it made.
\* A fetch may raise, may leave no file, or may leave a file that joblib
\* cannot load.
download_if_missing(st) ==
    IF st # "missing"
    THEN { [ok |-> TRUE, left |-> st, fetched |-> 0] }
    ELSE { [ok |-> FALSE, left |-> "missing", fetched |-> 0],
           [ok |-> FALSE, left |-> "missing", fetched |-> 1],
           [ok |-> TRUE,  left |-> "good",    fetched |-> 1],
           [ok |-> TRUE,  left |-> "corrupt", fetched |-> 1] }

\* joblib.load inside its try: the object, or None when it raised.
joblib_load(st, obj) == IF st = "good" THEN obj ELSE None

\* The values load_model_and_vectorizer may return with the artifact files
\* as they are: the pair, the files left behind and the calls made.
load_model_and_vectorizer ==
    { [ pair |-> IF v.ok /\ m.ok
                 THEN [ model      |-> joblib_load(m.left, "RandomForest"),
                        vectorizer |-> joblib_load(v.left, "TfidfVectorizer") ]
                 ELSE [ model |-> None, vectorizer |-> None ],
        left |-> [ vectorizer |-> v.left, model |-> m.left ],
        fetched |-> v.fetched + m.fetched,
        unpickled |-> IF v.ok /\ m.ok THEN 2 ELSE 0 ] :
      v \in download_if_missing(artifact["vectorizer"]),
      m \in download_if_missing(artifact["model"]) }

\* ------------------------------------------- @st.cache_resource, lines 71, 111
\* The call at line 111 first reads the store without the lock.
CacheLookup(s) ==
    /\ pc[s] = "load"
    /\ IF cache # <<>>
       THEN /\ loaded' = [loaded EXCEPT ![s] = cache[1]]
            /\ pc' = [pc EXCEPT ![s] = "ui"]
       ELSE /\ pc' = [pc EXCEPT ![s] = "lock"]
            /\ UNCHANGED loaded
    /\ last' = Step("load", s)
    /\ UNCHANGED << storeVars, loaderVars, page, result >>

\* On a miss the caller takes the store's compute lock.
AcquireLock(s) ==
    /\ pc[s] = "lock"
    /\ lock = "free"
    /\ lock' = s
    /\ pc' = [pc EXCEPT ![s] = "recheck"]
    /\ last' = Step("load", s)
    /\ UNCHANGED << storeVars, artifact, cache, bodyRuns, downloads, joblibLoads,
                    page, result, loaded >>

\* A mutation of SecondLookupHits: the store is not read again under the lock.
SecondLookupNever == FALSE

\* Holding the lock, the caller reads the store again.
SecondLookupHits == cache # <<>>

Recheck(s) ==
    /\ pc[s] = "recheck"
    /\ IF SecondLookupHits
       THEN /\ loaded' = [loaded EXCEPT ![s] = cache[1]]
            /\ lock' = "free"
            /\ pc' = [pc EXCEPT ![s] = "ui"]
       ELSE /\ pc' = [pc EXCEPT ![s] = "body"]
            /\ UNCHANGED << loaded, lock >>
    /\ last' = Step("load", s)
    /\ UNCHANGED << storeVars, artifact, cache, bodyRuns, downloads, joblibLoads,
                    page, result >>

\* Still a miss: the body runs, its value is stored and the lock released.
LoadBody(s) ==
    /\ pc[s] = "body"
    /\ \E r \in load_model_and_vectorizer :
          /\ artifact' = r.left
          /\ downloads' = downloads + r.fetched
          /\ joblibLoads' = joblibLoads + r.unpickled
          /\ cache' = << r.pair >>
          /\ loaded' = [loaded EXCEPT ![s] = r.pair]
    /\ bodyRuns' = bodyRuns + 1
    /\ lock' = "free"
    /\ pc' = [pc EXCEPT ![s] = "ui"]
    /\ last' = Step("load", s)
    /\ UNCHANGED << storeVars, page, result >>

\* ------------------------------------------------ sidebar navigation, lines 226-246
\* A sidebar button was clicked: the page is set and the script is rerun.
NavClick(s, target_page) ==
    /\ pc[s] = "ui"
    /\ page' = [page EXCEPT ![s] = target_page]
    /\ pc' = [pc EXCEPT ![s] = "init"]
    /\ last' = Step("nav", s)
    /\ UNCHANGED << storeVars, loaderVars, result, loaded >>

\* ------------------------------------------------------- Home page, lines 249-312
\* The Home page drawn with the Analyze button not clicked.
HomeRender(s) ==
    /\ pc[s] = "ui"
    /\ page[s] = "Home"
    /\ pc' = [pc EXCEPT ![s] = "init"]
    /\ last' = Step("home", s)
    /\ UNCHANGED << storeVars, loaderVars, page, result, loaded >>

\* A mutation of sentiment_labels: a plain lookup, code 3 falling on a label.
sentiment_labels_nodefault(prediction) ==
    CASE prediction = 0 -> <<"Weak Competence">>
      [] prediction = 1 -> <<"Normal Competence">>
      [] OTHER          -> <<"Strong Competence">>

\* sentiment_labels.get(prediction, "Unknown")
sentiment_labels(prediction) ==
    CASE prediction = 0 -> <<"Weak Competence">>
      [] prediction = 1 -> <<"Normal Competence">>
      [] prediction = 2 -> <<"Strong Competence">>
      [] OTHER          -> <<"Unknown">>

\* A mutation of NoText: the text is not stripped before the test.
NoTextUnstripped(comment) == comment = <<>>

\* not comment.strip()
NoText(comment) == \A i \in 1..Len(comment) : comment[i] \in Whitespace

\* A mutation of ModelNotLoaded: refused only when both are None.
ModelNotLoadedBoth(p) == p.model = None /\ p.vectorizer = None

\* model is None or vectorizer is None
ModelNotLoaded(p) == p.model = None \/ p.vectorizer = None

Effect(outcome, called, code, wrote) ==
    [outcome |-> outcome, called |-> called, code |-> code, wrote |-> wrote]

\* A mutation of TryBlock: the row is written ahead of the prediction, so
\* that an exception out of predict leaves a row behind.
TryBlockWriteFirst(p) ==
    IF p.vectorizer = None THEN { Effect("raised", {}, 0, FALSE) }
    ELSE { Effect("raised", {"transform"}, 0, FALSE) } \cup
         ( IF p.model = None THEN { Effect("raised", {"transform"}, 0, FALSE) }
           ELSE { Effect("raised", {"transform", "to_csv", "predict"}, 3, TRUE) } \cup
                { Effect("saved", {"transform", "to_csv", "predict"}, c, TRUE) : c \in Codes } )

\* The ways the try block of lines 288-303 may go with the pair p: an
\* exception out of transform or predict ("raised"), a prediction whose row
\* is written ("saved"), a prediction whose write raises ("unsaved").  A call
\* on None raises before the callee runs.
TryBlock(p) ==
    IF p.vectorizer = None THEN { Effect("raised", {}, 0, FALSE) }
    ELSE { Effect("raised", {"transform"}, 0, FALSE) } \cup
         ( IF p.model = None THEN { Effect("raised", {"transform"}, 0, FALSE) }
           ELSE { Effect("raised", {"transform", "predict"}, 0, FALSE) } \cup
                { Effect("saved", {"transform", "predict", "to_csv"}, c, TRUE) : c \in Codes } \cup
                { Effect("unsaved", {"transform", "predict", "to_csv"}, c, FALSE) : c \in Codes } )

\* The row of lines 296-300.
Record(now, comment, label) == << now.date, now.time, comment, label >>

\* The Analyze button was clicked with comment in the text area.
Analyze(s) ==
    /\ pc[s] = "ui"
    /\ page[s] = "Home"
    /\ \E comment \in Texts :
         IF NoText(comment)
         THEN /\ result' = [result EXCEPT ![s] = EmptyInputMsg]
              /\ last' = [Step("analyze", s) EXCEPT !.outcome = "empty", !.text = comment]
              /\ UNCHANGED storeVars
         ELSE IF ModelNotLoaded(loaded[s])
         THEN /\ result' = [result EXCEPT ![s] = NotLoadedMsg]
              /\ last' = [Step("analyze", s) EXCEPT !.outcome = "unavailable", !.text = comment]
              /\ UNCHANGED storeVars
         ELSE \E now \in Clock, e \in TryBlock(loaded[s]) :
              /\ e.wrote => Len(appended) < MaxRecords
              /\ result' = IF e.outcome = "raised" THEN result
                           ELSE [result EXCEPT ![s] = sentiment_labels(e.code)]
              /\ IF e.wrote
                 THEN /\ fileExists' = TRUE
                      /\ file' = file \o CsvRow(Record(now, comment, sentiment_labels(e.code)))
                      /\ appended' = Append(appended, Record(now, comment, sentiment_labels(e.code)))
                      /\ UNCHANGED << headerByInit, cleared >>
                 ELSE UNCHANGED storeVars
              /\ last' = [Step("analyze", s) EXCEPT !.outcome = e.outcome, !.text = comment,
                                                    !.code = e.code, !.called = e.called]
    /\ pc' = [pc EXCEPT ![s] = "init"]
    /\ UNCHANGED << loaderVars, page, loaded >>

\* ------------------------------------------- reading the file, lines 339-341, 367-369
Range(f) == { f[i] : i \in DOMAIN f }

\* What a page gets from the file: "notfound" when os.path.exists is false;
\* else the DataFrame of read_csv, "empty" when it has no record, "keyerror"
\* when the page indexes a column the DataFrame lacks, and "rows" with the
\* records otherwise.
PageRead(needed) ==
    IF ~fileExists THEN [outcome |-> "notfound", view |-> <<>>]
    ELSE LET df == read_csv(file) IN
         IF df.records = <<>> THEN [outcome |-> "empty", view |-> <<>>]
         ELSE IF \E c \in needed : c \notin Range(df.columns)
         THEN [outcome |-> "keyerror", view |-> <<>>]
         ELSE [outcome |-> "rows", view |-> df.records]

\* Summary page, lines 315-362.
SummaryPage(s) ==
    /\ pc[s] = "ui"
    /\ page[s] = "Summary"
    /\ LET r == PageRead({ <<"Classification">> }) IN
         last' = [Step("summary", s) EXCEPT !.outcome = r.outcome, !.view = r.view]
    /\ pc' = [pc EXCEPT ![s] = "init"]
    /\ UNCHANGED << storeVars, loaderVars, page, result, loaded >>

\* History page with the Delete History button not clicked, lines 365-387.
\* The table drawn is the frame sorted by date and time, latest first; view
\* keeps the frame as read_csv returned it.
HistoryPage(s) ==
    /\ pc[s] = "ui"
    /\ page[s] = "History"
    /\ LET r == PageRead({ <<"Date">>, <<"Time">> }) IN
         last' = [Step("history", s) EXCEPT !.outcome = r.outcome, !.view = r.view]
    /\ pc' = [pc EXCEPT ![s] = "init"]
    /\ UNCHANGED << storeVars, loaderVars, page, result, loaded >>

\* The Delete History button was clicked, lines 389-397.  The button is drawn
\* after the table, so an exception in the table's code leaves no button.
DeleteHistory(s) ==
    /\ pc[s] = "ui"
    /\ page[s] = "History"
    /\ PageRead({ <<"Date">>, <<"Time">> }).outcome # "keyerror"
    /\ IF fileExists
       THEN /\ fileExists' = FALSE
            /\ file' = <<>>
            /\ appended' = <<>>
            /\ headerByInit' = FALSE
            /\ cleared' = TRUE
            /\ last' = [Step("delete", s) EXCEPT !.outcome = "removed"]
       ELSE /\ last' = [Step("delete", s) EXCEPT !.outcome = "nothing"]
            /\ UNCHANGED storeVars
    /\ pc' = [pc EXCEPT ![s] = "init"]
    /\ UNCHANGED << loaderVars, page, result, loaded >>

\* ------------------------------------------------------------ specifications
LoaderStep(s) ==
    \/ CacheLookup(s)
    \/ AcquireLock(s)
    \/ Recheck(s)
    \/ LoadBody(s)

\* One session at a time: every click of the one user.
Next ==
    \E s \in SingleSession :
        \/ InitHistory(s)
        \/ LoaderStep(s)
        \/ \E p \in Pages : NavClick(s, p)
        \/ HomeRender(s)
        \/ Analyze(s)
        \/ SummaryPage(s)
        \/ HistoryPage(s)
        \/ DeleteHistory(s)

Spec == Init /\ [][Next]_vars

\* Script runs of several sessions interleaved in the one process, the
\* sessions browsing the pages.
NextConcurrent ==
    \E s \in Sessions :
        \/ InitHistory(s)
        \/ LoaderStep(s)
        \/ \E p \in Pages : NavClick(s, p)
        \/ HomeRender(s)
        \/ SummaryPage(s)
        \/ HistoryPage(s)

SpecConcurrent == Init /\ [][NextConcurrent]_vars

\* ---------------------------------------------------------------- properties
\* The records the file holds: its rows after the header line.
StoredRecords ==
    IF ~fileExists THEN <<>>
    ELSE LET rows == CsvRows(file) IN IF rows = <<>> THEN <<>> ELSE Tail(rows)

HeaderLine == CsvRow(HISTORY_COLUMNS)

IsPrefix(p, q) == Len(p) <= Len(q) /\ SubSeq(q, 1, Len(p)) = p

IsBlank(t) == \A i \in 1..Len(t) : t[i] = SPACE \/ t[i] = NL

LabelOf(c) ==
    IF c = 0 THEN <<"Weak Competence">>
    ELSE IF c = 1 THEN <<"Normal Competence">>
    ELSE IF c = 2 THEN <<"Strong Competence">>
    ELSE <<"Unknown">>

\* A record as a read returns it when every field comes back as written.
AsRead(rec) == [ j \in 1..Len(rec) |-> Str(rec[j]) ]

IsRead == last.act \in {"summary", "history"}

\* C1: an Analyze click on empty or whitespace-only text sets the result to
\* the EmptyInput message, calls neither transform nor predict (nor to_csv),
\* and leaves the history file as it was, whatever pair is loaded.
C1_EmptyInputRefused ==
    [][ (last'.act = "analyze" /\ IsBlank(last'.text))
        => /\ result'[last'.sess] = EmptyInputMsg
           /\ last'.called = {}
           /\ fileExists' = fileExists
           /\ file' = file ]_vars

C1_Witness ==
    /\ last.act = "analyze"
    /\ last.text = <<NL, SPACE>>
    /\ result[last.sess] = EmptyInputMsg
    /\ loaded[last.sess].model # None
    /\ loaded[last.sess].vectorizer # None
    /\ appended # <<>>

\* C2: an Analyze click on non-blank text with the model, the vectorizer or
\* both None sets the result to the ArtifactUnavailable message, calls neither
\* transform nor predict, and leaves the history file as it was.
C2_UnavailableRefused ==
    [][ ( /\ last'.act = "analyze"
          /\ ~IsBlank(last'.text)
          /\ \/ loaded[last'.sess].model = None
             \/ loaded[last'.sess].vectorizer = None )
        => /\ result'[last'.sess] = NotLoadedMsg
           /\ last'.called = {}
           /\ fileExists' = fileExists
           /\ file' = file ]_vars

C2_Witness ==
    /\ last.act = "analyze"
    /\ ~IsBlank(last.text)
    /\ loaded[last.sess].model # None
    /\ loaded[last.sess].vectorizer = None
    /\ result[last.sess] = NotLoadedMsg

\* C3: an Analyze click whose transform and predict succeed with code c, and
\* whose write does not raise, adds exactly one record at the end of the
\* stored records, holding the raw text and the label of c, the earlier
\* records kept as they were.
C3_OneRecordAppended ==
    [][ (last'.act = "analyze" /\ last'.outcome = "saved")
        => \E now \in Clock :
              StoredRecords' =
                 Append(StoredRecords, Record(now, last'.text, LabelOf(last'.code))) ]_vars

\* C4: with the file created by the start-up block and no Delete History
\* since, a read returns the records appended, in that order, each field as
\* it was written.
C4_RoundTrip ==
    (IsRead /\ headerByInit)
    => IF appended = <<>> THEN last.outcome = "empty"
       ELSE /\ last.outcome = "rows"
            /\ last.view = [ n \in 1..Len(appended) |-> AsRead(appended[n]) ]

\* C5: after Delete History a read returns zero records, not an error, and
\* after one more successful Analyze a read returns that one record.
C5_ClearThenAppend ==
    (IsRead /\ cleared)
    => /\ appended = <<>> => last.outcome = "empty"
       /\ Len(appended) = 1 =>
             last.outcome = "rows" /\ last.view = << AsRead(appended[1]) >>

\* C6: an Analyze click in which transform or predict raises ends as any
\* other click does, the session ready for its next run, and leaves the
\* history file as it was.
C6_InferenceFailureContained ==
    [][ (last'.act = "analyze" /\ last'.outcome = "raised")
        => /\ pc'[last'.sess] = "init"
           /\ fileExists' = fileExists
           /\ file' = file ]_vars

C6_Witness ==
    /\ last.act = "analyze"
    /\ last.outcome = "raised"
    /\ "predict" \in last.called
    /\ appended # <<>>

C8_LabelMapping ==
    (last.act = "analyze" /\ last.outcome \in {"saved", "unsaved"})
    => result[last.sess] = LabelOf(last.code)

C8_Witness ==
    /\ last.act = "analyze"
    /\ last.outcome = "saved"
    /\ last.code = 3
    /\ result[last.sess] = <<"Unknown">>

\* C9: in every step other than a Delete History click the stored records
\* before the step are a prefix of the stored records after it (a step that
\* leaves the file alone keeps them all).
C9_OnlyDeleteClears ==
    [][ last'.act # "delete"
        => \/ fileExists' = fileExists /\ file' = file
           \/ IsPrefix(StoredRecords, StoredRecords') ]_vars

\* A script run has started on a file holding the most records.
C9_Witness ==
    /\ last.act = "init"
    /\ headerByInit
    /\ Len(StoredRecords) = MaxRecords

\* C10: whenever to_csv appends a row or read_csv reads the file, the file
\* exists and begins with the header line.
C10_HeaderBeforeUse ==
    [][ ( \/ last'.act = "analyze" /\ "to_csv" \in last'.called
          \/ last'.act \in {"summary", "history"} /\ last'.outcome # "notfound" )
        => fileExists /\ IsPrefix(HeaderLine, file) ]_vars

====
